---- MODULE Spec2Model ----
(***************************************************************************)
(* A model of dt.py: the command line is resolved by parse_args (with      *)
(* type_convert normalising the adapter types), main's loop constructs one *)
(* builder per selected command and runs it as a child process, stopping   *)
(* at the first child that exits with a non-zero status.                   *)
(*                                                                         *)
(* A string that the code takes apart (the --types value) is a sequence of *)
(* one-character strings; every other token is a TLA+ string.              *)
(***************************************************************************)
EXTENDS Integers, Sequences, FiniteSets, TLC

VARIABLES
    sys_argv,   \* the command line, sys.argv[1:], a sequence of options
    pc,         \* main's position
    parsed,     \* the argparse namespace returned by parse_args
    i,          \* number of entries of parsed.commands the loop has finished
    builder,    \* the builder main's loop holds
    children,   \* the child processes in flight (loop positions)
    typeOrder,  \* the iteration order of the set parsed.types, once observed
    built,      \* history: the builders constructed, in order
    started,    \* history: the argument vectors handed to subprocess.run
    exits,      \* history: the exit statuses of the finished children
    exc,        \* the uncaught exception that ended main, if any
    status,     \* the exit status of main, -1 while running
    tcIn,       \* type_convert's argument (type_convert specification)
    tcOut       \* type_convert's outcome  (type_convert specification)

vars == <<sys_argv, pc, parsed, i, builder, children, typeOrder, built,
          started, exits, exc, status, tcIn, tcOut>>

mainVars == <<sys_argv, pc, parsed, i, builder, children, typeOrder, built,
              started, exits, exc, status>>

-----------------------------------------------------------------------------
(* Bounds *)

\* longest command line
MaxArgv == 3

\* longest --types string given to type_convert on its own
MaxTypeLen == 6

\* characters of the --types strings given to type_convert on its own
TypeAlphabet == {"p", "g", "b", ","}

\* exit statuses a child process may return
ExitCodes == {0, 1}

-----------------------------------------------------------------------------
(* Values *)

\* Python's None as a list element or an option value
NoneTok == "<None>"

\* Python's None as the value of parsed.commands
None == <<NoneTok>>

Opt(o) == [opt |-> o, val |-> <<>>]

OptVal(o, v) == [opt |-> o, val |-> v]

\* the options a command line is made of; "extra" is a positional argument,
\* a pass-through option given without a value stores None (nargs='?')
ArgItems ==
    { Opt("-f"), Opt("-u"), Opt("-i"),
      OptVal("-t", <<"p", ",", "b">>), OptVal("-t", <<"x">>),
      Opt("-c"), Opt("-p"), Opt("--no-multi"), Opt("--coverage"), Opt("-1"),
      OptVal("-k", <<"expr">>),
      OptVal("--docker-args", <<"dkr">>), OptVal("--tox-args", <<"txa">>),
      OptVal("-a", <<"itgt">>), OptVal("-a", <<NoneTok>>),
      OptVal("--unit-args", <<"utgt">>),
      OptVal("--flake8-args", <<"ftgt">>),
      OptVal("extra", <<"xtgt">>) }

\* positional arguments are accepted as one trailing group
ExtrasTrailing(s) ==
    \A a, b \in 1..Len(s) : (a < b /\ s[a].opt = "extra") => s[b].opt = "extra"

CommandLines ==
    { s \in UNION { [1..n -> ArgItems] : n \in 0..MaxArgv } : ExtrasTrailing(s) }

\* the files Flake8Builder probes
LayoutPaths == {"dbt/main.py", "core/dbt/main.py"}

-----------------------------------------------------------------------------
(* type_convert *)

ShorthandPairs ==
    { << <<"p">>, "postgres" >>,
      << <<"p", "g">>, "postgres" >>,
      << <<"p", "o", "s", "t", "g", "r", "e", "s">>, "postgres" >>,
      << <<"p", "r">>, "presto" >>,
      << <<"p", "r", "e", "s", "t", "o">>, "presto" >>,
      << <<"r">>, "redshift" >>,
      << <<"r", "s">>, "redshift" >>,
      << <<"r", "e", "d", "s", "h", "i", "f", "t">>, "redshift" >>,
      << <<"b">>, "bigquery" >>,
      << <<"b", "q">>, "bigquery" >>,
      << <<"b", "i", "g", "q", "u", "e", "r", "y">>, "bigquery" >>,
      << <<"s">>, "snowflake" >>,
      << <<"s", "f">>, "snowflake" >>,
      << <<"s", "n", "o", "w", "f", "l", "a", "k", "e">>, "snowflake" >> }

SHORTHAND ==
    [ k \in { p[1] : p \in ShorthandPairs } |->
        (CHOOSE p \in ShorthandPairs : p[1] = k)[2] ]

RECURSIVE SplitAcc(_, _, _)
SplitAcc(s, cur, acc) ==
    IF s = <<>> THEN Append(acc, cur)
    ELSE IF Head(s) = "," THEN SplitAcc(Tail(s), <<>>, Append(acc, cur))
    ELSE SplitAcc(Tail(s), Append(cur, Head(s)), acc)

\* types.split(',')
split(types) == SplitAcc(types, <<>>, <<>>)

RECURSIVE ConvertLoop(_, _)
ConvertLoop(toks, result) ==
    IF toks = <<>> THEN [raised |-> FALSE, result |-> result, token |-> <<>>]
    ELSE IF Head(toks) \in DOMAIN SHORTHAND
         THEN ConvertLoop(Tail(toks), result \cup {SHORTHAND[Head(toks)]})
         ELSE [raised |-> TRUE, result |-> {}, token |-> Head(toks)]

\* a KeyError is silently skipped instead of raised
type_convert_skip(types) ==
    LET toks == split(types)
        good == { j \in 1..Len(toks) : toks[j] \in DOMAIN SHORTHAND }
    IN [raised |-> FALSE, result |-> { SHORTHAND[toks[j]] : j \in good },
        token |-> <<>>]

\* raised: ValueError naming token; otherwise the returned set
type_convert(types) == ConvertLoop(split(types), {})

-----------------------------------------------------------------------------
(* parse_args *)

Defaults ==
    [ commands |-> None, types |-> <<>>, stop |-> TRUE, pdb |-> FALSE,
      multi |-> TRUE, coverage |-> FALSE, single_threaded |-> FALSE,
      python_version |-> "36",
      k |-> <<>>, docker_args |-> <<>>, tox_args |-> <<>>,
      test_args |-> <<>>, unit_args |-> <<>>, flake8_args |-> <<>>,
      extra |-> <<>> ]

\* action='append_const'
append_const(ns, const) ==
    [ns EXCEPT !.commands =
        IF ns.commands = None THEN <<const>> ELSE Append(ns.commands, const)]

\* one option of the command line, as argparse stores it
take(ns, a) ==
    CASE a.opt = "-f" -> append_const(ns, "Flake8Builder")
      [] a.opt = "-u" -> append_const(ns, "UnitBuilder")
      [] a.opt = "-i" -> append_const(ns, "IntegrationBuilder")
      [] a.opt = "-t" -> [ns EXCEPT !.types = a.val]
      [] a.opt = "-c" -> [ns EXCEPT !.stop = FALSE]
      [] a.opt = "-p" -> [ns EXCEPT !.pdb = TRUE]
      [] a.opt = "--no-multi" -> [ns EXCEPT !.multi = FALSE]
      [] a.opt = "--coverage" -> [ns EXCEPT !.coverage = TRUE]
      [] a.opt = "-1" -> [ns EXCEPT !.single_threaded = TRUE]
      [] a.opt = "-k" -> [ns EXCEPT !.k = Append(@, a.val[1])]
      [] a.opt = "--docker-args" -> [ns EXCEPT !.docker_args = Append(@, a.val[1])]
      [] a.opt = "--tox-args" -> [ns EXCEPT !.tox_args = Append(@, a.val[1])]
      [] a.opt = "-a" -> [ns EXCEPT !.test_args = Append(@, a.val[1])]
      [] a.opt = "--unit-args" -> [ns EXCEPT !.unit_args = Append(@, a.val[1])]
      [] a.opt = "--flake8-args" -> [ns EXCEPT !.flake8_args = Append(@, a.val[1])]
      [] a.opt = "extra" -> [ns EXCEPT !.extra = Append(@, a.val[1])]

RECURSIVE parser_parse_args(_, _)
parser_parse_args(argv, ns) ==
    IF argv = <<>> THEN ns
    ELSE parser_parse_args(Tail(argv), take(ns, Head(argv)))

\* raised: type_convert's ValueError; otherwise the namespace returned
parse_args(argv0) ==
    LET argv == IF argv0 = <<>>
                THEN <<Opt("-i"), OptVal("-t", <<"p", "g">>)>>
                ELSE argv0
        ns == parser_parse_args(argv, Defaults)
        tc == type_convert(ns.types)
    IN IF ns.types # <<>>
       THEN [raised |-> tc.raised, parsed |-> [ns EXCEPT !.types = tc.result]]
       ELSE [raised |-> FALSE,
             parsed |-> [ns EXCEPT !.types =
                           {"postgres", "redshift", "bigquery", "snowflake"}]]

-----------------------------------------------------------------------------
(* Builders *)

PytestBuilders == {"UnitBuilder", "IntegrationBuilder"}

\* the class attribute DEFAUlTS
DEFAUlTS(cls) ==
    IF cls = "IntegrationBuilder" THEN <<"test/integration">> ELSE <<"test/unit">>

\* the orders in which a set may be iterated
Orders(S) ==
    { s \in [1..Cardinality(S) -> S] :
        \A a, b \in 1..Cardinality(S) : a # b => s[a] # s[b] }

RECURSIVE join(_, _)
join(sep, strs) ==
    IF strs = <<>> THEN ""
    ELSE IF Len(strs) = 1 THEN strs[1]
    ELSE strs[1] \o sep \o join(sep, Tail(strs))

\* DockerBuilder.add_docker_args
add_docker_args(p) ==
    <<"docker-compose", "run", "--rm">>
    \o (IF p.single_threaded THEN <<"-e", "DBT_TEST_SINGLE_THREADED=y">> ELSE <<>>)
    \o p.docker_args

\* PytestBuilder.add_tox_args
add_tox_args(args, p) ==
    args \o <<"test", "tox", "-e", "explicit-py" \o p.python_version>>
         \o p.tox_args \o <<"--">>

\* the marker pair is counted among the explicit targets
add_extra_pytest_args_marker(cls, args, p, ord) ==
    LET start == Len(args)
        a1 == IF cls = "IntegrationBuilder" /\ p.types # {}
              THEN args \o <<"-m", join(" or ", [j \in 1..Len(ord) |-> "profile_" \o ord[j]])>>
              ELSE args
        a2 == a1 \o (IF cls = "IntegrationBuilder" THEN p.test_args ELSE p.unit_args)
                 \o p.extra
    IN [args |-> a2, start |-> start, ret |-> Len(a2) - start > 0]

\* IntegrationBuilder.add_extra_pytest_args, UnitBuilder.add_extra_pytest_args;
\* ord is the order in which the set p.types is iterated
add_extra_pytest_args(cls, args, p, ord) ==
    IF cls = "IntegrationBuilder"
    THEN LET a1 == IF p.types # {}
                   THEN args \o <<"-m",
                          join(" or ", [j \in 1..Len(ord) |-> "profile_" \o ord[j]])>>
                   ELSE args
             start == Len(a1)
             a2 == a1 \o p.test_args \o p.extra
         IN [args |-> a2, start |-> start, ret |-> Len(a2) - start > 0]
    ELSE LET start == Len(args)
             a2 == args \o p.unit_args \o p.extra
         IN [args |-> a2, start |-> start, ret |-> Len(a2) - start > 0]

\* debugger mode leaves parsed.multi alone
add_pytest_args_keepmulti(cls, args, p, ord) ==
    LET a1 == Append(args, "-s")
        a2 == IF p.pdb
              THEN a1 \o <<"--pdb", "--pdbcls=IPython.terminal.debugger:Pdb">>
              ELSE a1
        multi == p.multi
        a3 == IF p.stop THEN Append(a2, "-x") ELSE a2
        a4 == IF p.coverage
              THEN a3 \o <<"--cov", "dbt", "--cov-branch", "--cov-report", "term">>
              ELSE a3
        a5 == a4 \o [j \in 1..(2 * Len(p.k)) |->
                        IF j % 2 = 1 THEN "-k" ELSE p.k[j \div 2]]
        a6 == IF multi THEN a5 \o <<"-n", "auto">> ELSE a5
        ex == add_extra_pytest_args(cls, a6, p, ord)
    IN [args |-> IF ~ex.ret THEN ex.args \o DEFAUlTS(cls) ELSE ex.args,
        multi |-> multi, start |-> ex.start]

\* PytestBuilder.add_pytest_args; multi is the value left in parsed.multi
add_pytest_args(cls, args, p, ord) ==
    LET a1 == Append(args, "-s")
        a2 == IF p.pdb
              THEN a1 \o <<"--pdb", "--pdbcls=IPython.terminal.debugger:Pdb">>
              ELSE a1
        multi == IF p.pdb THEN FALSE ELSE p.multi
        a3 == IF p.stop THEN Append(a2, "-x") ELSE a2
        a4 == IF p.coverage
              THEN a3 \o <<"--cov", "dbt", "--cov-branch", "--cov-report", "term">>
              ELSE a3
        a5 == a4 \o [j \in 1..(2 * Len(p.k)) |->
                        IF j % 2 = 1 THEN "-k" ELSE p.k[j \div 2]]
        a6 == IF multi THEN a5 \o <<"-n", "auto">> ELSE a5
        ex == add_extra_pytest_args(cls, a6, p, ord)
    IN [args |-> IF ~ex.ret THEN ex.args \o DEFAUlTS(cls) ELSE ex.args,
        multi |-> multi, start |-> ex.start]

\* DockerBuilder.add_test_environment_args
Docker_add_test_environment_args(cls, p, ord) ==
    add_pytest_args(cls, add_tox_args(add_docker_args(p), p), p, ord)

\* Flake8Builder.add_test_environment_args; fs is the set of existing files
Flake8_add_test_environment_args(p, fs) ==
    LET a0 == <<"flake8", "--select", "E,W,F", "--ignore", "W504">>
        start == Len(a0)
        a1 == a0 \o p.flake8_args
        a2 == IF Len(a1) = start
              THEN IF "dbt/main.py" \in fs THEN Append(a1, "dbt")
                   ELSE IF "core/dbt/main.py" \in fs
                        THEN a1 \o <<"core/dbt", "plugins/postgres/dbt",
                                     "plugins/redshift/dbt", "plugins/bigquery/dbt",
                                     "plugins/snowflake/dbt">>
                        ELSE a1
              ELSE a1
    IN [args |-> a2, multi |-> p.multi, start |-> start]

\* ArgBuilder.__init__: cls(parsed)
ArgBuilder_init(cls, p, fs, ord) ==
    IF cls = "Flake8Builder"
    THEN Flake8_add_test_environment_args(p, fs)
    ELSE Docker_add_test_environment_args(cls, p, ord)

NoBuilder == [cls |-> "None", args |-> <<>>, start |-> 0]

NoOut == [done |-> FALSE, raised |-> FALSE, result |-> {}, token |-> <<>>]

-----------------------------------------------------------------------------
(* main *)

Init ==
    /\ sys_argv \in CommandLines
    /\ pc = "parse"
    /\ parsed = Defaults
    /\ i = 0
    /\ builder = NoBuilder
    /\ children = {}
    /\ typeOrder = <<>>
    /\ built = <<>>
    /\ started = <<>>
    /\ exits = <<>>
    /\ exc = "none"
    /\ status = -1
    /\ tcIn = <<>>
    /\ tcOut = NoOut

\* parsed = parse_args(argv); a ValueError of type_convert is not caught
ParseArgs ==
    /\ pc = "parse"
    /\ LET r == parse_args(sys_argv)
       IN IF r.raised
          THEN /\ pc' = "crashed"
               /\ exc' = "ValueError"
               /\ status' = 1
               /\ UNCHANGED parsed
          ELSE /\ pc' = "loop"
               /\ parsed' = r.parsed
               /\ UNCHANGED <<exc, status>>
    /\ UNCHANGED <<sys_argv, i, builder, children, typeOrder, built, started,
                   exits, tcIn, tcOut>>

\* for cls in parsed.commands, when no command option was given: iterating
\* None raises a TypeError that main does not catch
IterNone ==
    /\ pc = "loop"
    /\ parsed.commands = None
    /\ pc' = "crashed"
    /\ exc' = "TypeError"
    /\ status' = 1
    /\ UNCHANGED <<sys_argv, parsed, i, builder, children, typeOrder, built,
                   started, exits, tcIn, tcOut>>

\* builder = cls(parsed) for the next entry of parsed.commands
Build ==
    /\ pc = "loop"
    /\ parsed.commands # None
    /\ i < Len(parsed.commands)
    /\ LET cls == parsed.commands[i + 1]
       IN \E fs \in SUBSET LayoutPaths :
          \E ord \in (IF cls # "IntegrationBuilder" THEN {typeOrder}
                      ELSE IF typeOrder # <<>> THEN {typeOrder}
                      ELSE Orders(parsed.types)) :
             LET b == ArgBuilder_init(cls, parsed, fs, ord)
                 rec == [cls |-> cls, args |-> b.args, start |-> b.start]
             IN /\ builder' = rec
                /\ built' = Append(built, rec)
                /\ parsed' = [parsed EXCEPT !.multi = b.multi]
                /\ typeOrder' = ord
    /\ pc' = "run"
    /\ UNCHANGED <<sys_argv, i, children, started, exits, exc, status, tcIn, tcOut>>

\* the child is started and main goes on without waiting for it
Spawn_nowait ==
    /\ pc = "run"
    /\ IF NoneTok \in { builder.args[j] : j \in 1..Len(builder.args) }
       THEN /\ pc' = "crashed"
            /\ exc' = "TypeError"
            /\ status' = 1
            /\ UNCHANGED <<children, started, i>>
       ELSE /\ children' = children \cup {i + 1}
            /\ started' = Append(started, builder.args)
            /\ i' = i + 1
            /\ pc' = "loop"
            /\ UNCHANGED <<exc, status>>
    /\ UNCHANGED <<sys_argv, parsed, builder, typeOrder, built, exits,
                   tcIn, tcOut>>

\* builder.run() up to the start of the child: subprocess.run(self.args)
\* raises a TypeError, which main does not catch, on a None argument
Spawn ==
    /\ pc = "run"
    /\ IF NoneTok \in { builder.args[j] : j \in 1..Len(builder.args) }
       THEN /\ pc' = "crashed"
            /\ exc' = "TypeError"
            /\ status' = 1
            /\ UNCHANGED <<children, started>>
       ELSE /\ children' = children \cup {i + 1}
            /\ started' = Append(started, builder.args)
            /\ pc' = "wait"
            /\ UNCHANGED <<exc, status>>
    /\ UNCHANGED <<sys_argv, parsed, i, builder, typeOrder, built, exits,
                   tcIn, tcOut>>

\* the loop goes on after a child that failed, and fails at its end
ChildExit_goon ==
    /\ pc = "wait"
    /\ children # {}
    /\ \E rc \in ExitCodes :
          /\ exits' = Append(exits, rc)
          /\ children' = {}
          /\ i' = i + 1
          /\ pc' = "loop"
          /\ UNCHANGED status
    /\ UNCHANGED <<sys_argv, parsed, builder, typeOrder, built, started, exc,
                   tcIn, tcOut>>

\* the child terminates, subprocess.run returns, result.check_returncode():
\* a non-zero status raises CalledProcessError, main prints 'failed!' and
\* exits with status 1; otherwise the loop goes on
ChildExit ==
    /\ pc = "wait"
    /\ children # {}
    /\ \E rc \in ExitCodes :
          /\ exits' = Append(exits, rc)
          /\ children' = {}
          /\ IF rc # 0
             THEN /\ pc' = "failed"
                  /\ status' = 1
                  /\ UNCHANGED i
             ELSE /\ i' = i + 1
                  /\ pc' = "loop"
                  /\ UNCHANGED status
    /\ UNCHANGED <<sys_argv, parsed, builder, typeOrder, built, started, exc,
                   tcIn, tcOut>>

\* the loop is exhausted: print('success!')
Finish ==
    /\ pc = "loop"
    /\ parsed.commands # None
    /\ i = Len(parsed.commands)
    /\ pc' = "success"
    /\ status' = 0
    /\ UNCHANGED <<sys_argv, parsed, i, builder, children, typeOrder, built,
                   started, exits, exc, tcIn, tcOut>>

Next == ParseArgs \/ IterNone \/ Build \/ Spawn \/ ChildExit \/ Finish

Spec == Init /\ [][Next]_vars

-----------------------------------------------------------------------------
(* type_convert on its own *)

TypeStrings == UNION { [1..n -> TypeAlphabet] : n \in 0..MaxTypeLen }

InitTC ==
    /\ tcIn \in TypeStrings
    /\ tcOut = NoOut
    /\ sys_argv = <<>>
    /\ pc = "idle"
    /\ parsed = Defaults
    /\ i = 0
    /\ builder = NoBuilder
    /\ children = {}
    /\ typeOrder = <<>>
    /\ built = <<>>
    /\ started = <<>>
    /\ exits = <<>>
    /\ exc = "none"
    /\ status = -1

Convert ==
    /\ ~tcOut.done
    /\ LET r == type_convert(tcIn)
       IN tcOut' = [done |-> TRUE, raised |-> r.raised, result |-> r.result,
                    token |-> r.token]
    /\ UNCHANGED <<tcIn, mainVars>>

NextTC == Convert

SpecTC == InitTC /\ [][NextTC]_vars

-----------------------------------------------------------------------------
(* Vocabulary of the properties, read off the command line itself *)

HasOpt(o) == \E j \in 1..Len(sys_argv) : sys_argv[j].opt = o

CommandOptions == {"-f", "-u", "-i"}

NoCommandOption == \A j \in 1..Len(sys_argv) : sys_argv[j].opt \notin CommandOptions

KindOf(o) ==
    CASE o = "-f" -> "Flake8Builder"
      [] o = "-u" -> "UnitBuilder"
      [] o = "-i" -> "IntegrationBuilder"

\* position of the first occurrence of the option selecting kind c
FirstAt(c) ==
    CHOOSE j \in 1..Len(sys_argv) :
        /\ sys_argv[j].opt \in CommandOptions
        /\ KindOf(sys_argv[j].opt) = c
        /\ \A h \in 1..(j - 1) :
              sys_argv[h].opt \in CommandOptions => KindOf(sys_argv[h].opt) # c

SelectedKinds ==
    { KindOf(sys_argv[j].opt) :
        j \in { h \in 1..Len(sys_argv) : sys_argv[h].opt \in CommandOptions } }

RECURSIVE ValuesOf(_, _)
\* the values given to option o on the command line s, in order
ValuesOf(o, s) ==
    IF s = <<>> THEN <<>>
    ELSE (IF Head(s).opt = o THEN <<Head(s).val[1]>> ELSE <<>>) \o ValuesOf(o, Tail(s))

\* the explicit targets builder class cls is given on the command line
ExplicitTargets(cls) ==
    ValuesOf(IF cls = "IntegrationBuilder" THEN "-a" ELSE "--unit-args", sys_argv)
    \o ValuesOf("extra", sys_argv)

Elems(seq) == { seq[j] : j \in 1..Len(seq) }

Count(x, seq) == Cardinality({ j \in 1..Len(seq) : seq[j] = x })

HasPair(seq, a, b) == \E j \in 1..(Len(seq) - 1) : seq[j] = a /\ seq[j + 1] = b

PytestBuilt == { j \in 1..Len(built) : built[j].cls \in PytestBuilders }

Failed == \E j \in 1..Len(exits) : exits[j] # 0

-----------------------------------------------------------------------------
(* Properties *)

\* C1: once a child process has exited with a non-zero status, no further
\* builder is constructed and no further child is started, whatever the
\* --continue toggle.
C1_HaltAfterFailure ==
    [][Failed => (built' = built /\ started' = started /\ children' = children)]_vars

\* C1 witness: three commands, the second failed, the third was never built.
C1_Witness ==
    /\ pc = "failed"
    /\ Len(parsed.commands) = 3
    /\ exits = <<0, 1>>
    /\ Len(built) = 2
    /\ Len(started) = 2

\* C2: the resolved command list holds each selected kind once, in the order
\* of the first occurrence of its option.
C2_EachKindOnce ==
    (pc = "loop" /\ ~NoCommandOption) =>
        /\ Elems(parsed.commands) = SelectedKinds
        /\ Len(parsed.commands) = Cardinality(SelectedKinds)
        /\ \A a, b \in 1..Len(parsed.commands) :
              a < b => FirstAt(parsed.commands[a]) < FirstAt(parsed.commands[b])

\* C3: every command line without a command option (and with valid types)
\* resolves to the one command integration and the one type postgres, and
\* main then runs it instead of ending in an uncaught exception.
C3_DefaultWithoutCommand ==
    (NoCommandOption /\ pc # "parse" /\ exc # "ValueError") =>
        /\ pc # "crashed"
        /\ parsed.commands = <<"IntegrationBuilder">>
        /\ parsed.types = {"postgres"}

CanonicalOrder == <<"postgres", "redshift", "bigquery", "snowflake", "presto">>

CanonicalMarker(types) ==
    LET idx == { j \in 1..Len(CanonicalOrder) : CanonicalOrder[j] \in types }
        nth(n) == CHOOSE j \in idx : Cardinality({ h \in idx : h < j }) = n - 1
    IN join(" or ", [n \in 1..Cardinality(idx) |-> "profile_" \o CanonicalOrder[nth(n)]])

\* C5: the value after -m is a function of the resolved types alone: the
\* ' or '-joined profile_<type> in one fixed order ({postgres, bigquery}
\* always gives "profile_postgres or profile_bigquery").
C5_StableMarker ==
    \A j \in 1..Len(built) :
        built[j].cls = "IntegrationBuilder" =>
            /\ built[j].args[built[j].start - 1] = "-m"
            /\ built[j].args[built[j].start] = CanonicalMarker(parsed.types)

\* C6: no style-check vector without any target is handed to subprocess.run.
C6_NoTargetlessFlake8 ==
    \A j \in 1..Len(started) :
        built[j].cls = "Flake8Builder" =>
            Len(started[j]) > built[j].start

\* C7: a unit or integration vector ends with the explicit targets given on
\* the command line and does not hold the default target path when there is
\* one; otherwise it ends with the default target path, which it holds once.
\* The -m pair of the integration builder is not an explicit target.
C7_DefaultTarget ==
    \A j \in PytestBuilt :
        LET b == built[j]
            explicit == ExplicitTargets(b.cls)
            n == Len(b.args)
            default == DEFAUlTS(b.cls)[1]
        IN IF explicit # <<>>
           THEN /\ SubSeq(b.args, n - Len(explicit) + 1, n) = explicit
                /\ Count(default, b.args) = 0
           ELSE /\ b.args[n] = default
                /\ Count(default, b.args) = 1

\* C7 witness: a unit builder with an explicit target followed by an
\* integration builder without one.
C7_Witness ==
    /\ Len(built) = 2
    /\ built[1].cls = "UnitBuilder"
    /\ ExplicitTargets("UnitBuilder") # <<>>
    /\ built[2].cls = "IntegrationBuilder"
    /\ ExplicitTargets("IntegrationBuilder") = <<>>
    /\ HasPair(built[2].args, "-m", built[2].args[Len(built[2].args) - 1])
    /\ built[2].args[Len(built[2].args)] = "test/integration"

\* the comma-free pieces of a string, by the positions of its commas
TokensOf(s) ==
    LET cuts == {0, Len(s) + 1} \cup { j \in 1..Len(s) : s[j] = "," }
    IN { SubSeq(s, a + 1, b - 1) :
           <<a, b>> \in { c \in cuts \X cuts :
                            /\ c[1] < c[2]
                            /\ \A m \in cuts : ~(c[1] < m /\ m < c[2]) } }

\* C8: when every token is in the table, type_convert returns exactly the set
\* of the types the tokens map to; otherwise it raises an error naming a token
\* that is not in the table and returns nothing.
C8_TypeConvert ==
    tcOut.done =>
        IF TokensOf(tcIn) \subseteq DOMAIN SHORTHAND
        THEN /\ ~tcOut.raised
             /\ tcOut.result = { SHORTHAND[t] : t \in TokensOf(tcIn) }
        ELSE /\ tcOut.raised
             /\ tcOut.token \in TokensOf(tcIn) \ DOMAIN SHORTHAND
             /\ tcOut.result = {}

\* C8 witness: "p,pg,p" has been converted to {postgres}.
C8_Witness ==
    /\ tcOut.done
    /\ tcIn = <<"p", ",", "p", "g", ",", "p">>
    /\ ~tcOut.raised
    /\ tcOut.result = {"postgres"}

\* C9: children are started in the order of the resolved command list, at
\* most one is in flight, and command k+1 is neither built nor started before
\* the child of command k has terminated.
C9_Sequential ==
    /\ Cardinality(children) <= 1
    /\ Len(built) <= Len(exits) + 1
    /\ Len(started) <= Len(exits) + 1
    /\ Len(started) <= Len(built)
    /\ children # {} => Len(started) = Len(exits) + 1
    /\ \A j \in 1..Len(built) : built[j].cls = parsed.commands[j]
    /\ \A j \in 1..Len(started) : started[j] = built[j].args

\* C9 witness: two different commands have run to their end, one after the
\* other.
C9_Witness ==
    /\ pc = "success"
    /\ Len(exits) = 2
    /\ Len(started) = 2
    /\ parsed.commands[1] # parsed.commands[2]

\* C10: a unit or integration vector holds the pair -n auto exactly when
\* --no-multi was not given and --pdb was not given; no vector holds both the
\* debugger flags and -n, and after a builder with the debugger flags no
\* later builder of the run holds -n.
C10_AutoParallel ==
    /\ \A j \in PytestBuilt :
          /\ HasPair(built[j].args, "-n", "auto")
                <=> (~HasOpt("--no-multi") /\ ~HasOpt("-p"))
          /\ ("--pdb" \in Elems(built[j].args)) <=> HasOpt("-p")
          /\ ~("--pdb" \in Elems(built[j].args) /\ "-n" \in Elems(built[j].args))
    /\ \A a, b \in PytestBuilt :
          (a < b /\ "--pdb" \in Elems(built[a].args))
              => "-n" \notin Elems(built[b].args)

\* C10 witness: with --pdb and multi requested, a unit and an integration
\* builder were built one after the other, neither with -n auto.
C10_Witness ==
    /\ HasOpt("-p")
    /\ ~HasOpt("--no-multi")
    /\ Cardinality(PytestBuilt) = 2
    /\ \A j \in PytestBuilt : "--pdb" \in Elems(built[j].args)
    /\ \A j \in PytestBuilt : ~HasPair(built[j].args, "-n", "auto")

====
